---- MODULE Spec2Model ----
(***************************************************************************)
(* Model of the AIS player's playback scheduler, playPackets               *)
(* (src/index.js:527-569), together with the wall clock it polls and the   *)
(* onSend callback it drives.                                              *)
(*                                                                         *)
(* Units.  Packet instants and simulated time are integers in milliseconds *)
(* (the source holds them as floating-point seconds, sec + usec / 1e6; the *)
(* packets of the model have whole milliseconds).  The wall clock is in    *)
(* milliseconds, as Date.now() returns it, so that                         *)
(*   startTime + elapsedReal * playbackRate                                *)
(* is  startTime + elapsedMs * playbackRate  in milliseconds, exactly, for *)
(* the integer rates of the model.                                         *)
(***************************************************************************)
EXTENDS Integers, Sequences, FiniteSets, TLC

VARIABLES
    packets,                \* the Packet sequence handed to playPackets
    playbackRate,           \* module-level const playbackRate
    clockKind,              \* how the environment's wall clock behaves
    clock,                  \* Date.now(), in ms
    pc,                     \* position of the async function playPackets
    startTime,              \* const startTime   (ms)
    endTime,                \* const endTime     (ms)
    totalDuration,          \* const totalDuration (ms)
    playbackStart,          \* const playbackStart (ms)
    packetIndex,            \* let packetIndex (0-based, as in the source)
    lastHeartbeatSimTime,   \* let lastHeartbeatSimTime (ms)
    simulatedTime,          \* simulatedTime of the latest poll (ms)
    onSendCalls,            \* the calls made to onSend, in call order
    heartbeats,             \* the heartbeat lines logged, in order
    logged,                 \* other console.log lines of playPackets
    timeoutMs,              \* delay of the pending setTimeout, 0 if none
    suspended,              \* TRUE once this call has awaited a timer
    returnedAt,             \* clock value at which playPackets returned
    call,                   \* 1 for the first call of playPackets, 2 for a replay
    prevCalls,              \* <<packetTime, sentence>> calls of the first call
    prevRate,               \* playbackRate of the first call
    args,                   \* the parsed command line (lines 374-394)
    disk,                   \* the file args.file names: readable or not, content
    mainPc,                 \* position of the top-level script and of main
    exitCode,               \* status given to process.exit, -1 while running
    aisPackets,             \* let aisPackets of main (line 573)
    stdout,                 \* console.log lines of the script and of main
    stderr,                 \* console.error and console.warn lines
    producer,               \* the message producer: its state, what it sent
    collab,                 \* behaviour of the identifier extractor and the broker
    written,                \* the records the file on disk was written from
    prevRun,                \* outcome of an earlier run on the same file
    lastPacketKey,          \* the key kept by the onSend that skips repeats
    stomp,                  \* the fields of the MessageProducerSTOMP object
    net                     \* its surroundings: clients, promises, timers, caller

\* the variables of the sink and of the onSend that skips repeats
sinkVars == <<lastPacketKey, stomp, net>>

\* the variables of the program around the scheduler
mainVars == <<args, disk, mainPc, exitCode, aisPackets, stdout, stderr,
              producer, collab, written, prevRun, sinkVars>>

vars == <<packets, playbackRate, clockKind, clock, pc, startTime, endTime,
          totalDuration, playbackStart, packetIndex, lastHeartbeatSimTime,
          simulatedTime, onSendCalls, heartbeats, logged, timeoutMs, suspended,
          returnedAt, call, prevCalls, prevRate, mainVars>>

(***************************************************************************)
(* Bounds and input sets                                                   *)
(***************************************************************************)
MaxPackets == 3

\* Payloads: an AIS sentence, one surrounded by white space, and one that does
\* not start with the message-start marker
\* (bytes of "!A", " !B\n" and "$X")
PayloadA == <<33, 65>>
PayloadB == <<32, 33, 66, 10>>
PayloadX == <<36, 88>>

PacketPool ==
    { [timestampSec |-> 1000, timestampUsec |-> 0,      data |-> PayloadA],
      [timestampSec |-> 1002, timestampUsec |-> 500000, data |-> PayloadB],
      [timestampSec |-> 1010, timestampUsec |-> 10000,  data |-> PayloadX] }

RECURSIVE SeqsUpTo(_, _)
SeqsUpTo(S, n) ==
    IF n = 0 THEN { <<>> }
    ELSE LET shorter == SeqsUpTo(S, n - 1)
         IN  shorter \cup { Append(s, x) : s \in { t \in shorter : Len(t) = n - 1 }, x \in S }

PacketSeqs == SeqsUpTo(PacketPool, MaxPackets)

Rates == {1, 2, 5000}

\* The wall clock the scheduler polls:
\*   "exact"    advances by exactly the time slept;
\*   "late"     monotonic, but a timer may fire late (a stalled event loop,
\*              a suspended process) and a millisecond passes between the
\*              first two reads;
\*   "stepped"  set back once, right after playback started (a clock
\*              correction), then exact.
ClockKinds == {"exact", "late", "stepped"}

\* Time that passes between the Date.now() of line 537 and that of the first
\* poll (line 543).
EntryDelay(kind) ==
    CASE kind = "exact"   -> {0}
      [] kind = "late"    -> {1}
      [] OTHER            -> {0 - 100}

\* How far the clock has moved when a timer set for t ms fires.
WakeAdvance(kind, t) == IF kind = "late" THEN {t, t + 12000} ELSE {t}

(***************************************************************************)
(* Pure helpers                                                            *)
(***************************************************************************)
Max(a, b) == IF a >= b THEN a ELSE b

\* String.prototype.trim white space (the part of it the payloads use)
WhiteSpace == {" ", "\t", "\r", "\n"}

RECURSIVE TrimStart(_)
TrimStart(s) ==
    IF s # <<>> /\ Head(s) \in WhiteSpace THEN TrimStart(Tail(s)) ELSE s

RECURSIVE TrimEnd(_)
TrimEnd(s) ==
    IF s # <<>> /\ s[Len(s)] \in WhiteSpace
    THEN TrimEnd(SubSeq(s, 1, Len(s) - 1)) ELSE s

\* Buffer.prototype.toString('utf-8'), for the bytes the model's files use;
\* any other byte reads as the replacement character
CharOf(byte) ==
    CASE byte = 33 -> "!"
      [] byte = 65 -> "A"
      [] byte = 66 -> "B"
      [] byte = 36 -> "$"
      [] byte = 88 -> "X"
      [] byte = 32 -> " "
      [] byte = 10 -> "\n"
      [] byte = 13 -> "\r"
      [] byte = 9  -> "\t"
      [] OTHER     -> "?"

BufferToString(data) == [k \in 1..Len(data) |-> CharOf(data[k])]

\* Sentence without the trim()
SentenceUntrimmed(pkt) == BufferToString(pkt.data)

\* packet.data.toString('utf-8').trim()
Sentence(pkt) == TrimEnd(TrimStart(BufferToString(pkt.data)))

\* sentence.startsWith('!')
StartsWithBang(sentence) == sentence # <<>> /\ Head(sentence) = "!"

\* packet.timestampSec + packet.timestampUsec / 1e6, in ms
Instant(pkt) == pkt.timestampSec * 1000 + pkt.timestampUsec \div 1000

\* Due, comparing whole seconds only
DueBySecond(pkt, sim) == pkt.timestampSec * 1000 <= sim

\* the drain loop's test on one packet (line 558)
Due(pkt, sim) == Instant(pkt) <= sim

\* Number.prototype.toFixed(1) of a / b * 100, as a count of tenths; ties
\* round away from zero
ToFixed1(a, b) ==
    LET n   == IF a < 0 THEN 0 - a ELSE a
        d   == IF b < 0 THEN 0 - b ELSE b
        mag == (n \div d) * 1000 + (2000 * (n % d) + d) \div (2 * d)
    IN  IF (a < 0) = (b < 0) \/ mag = 0 THEN mag ELSE 0 - mag

\* ((simulatedTime - startTime) / totalDuration * 100).toFixed(1)  (line 551).
\* A division by zero yields Infinity, -Infinity or NaN, which toFixed
\* prints by name.
PercentPlayed(sim, start, total) ==
    IF total = 0
    THEN [kind   |-> IF sim - start > 0 THEN "Infinity"
                     ELSE IF sim - start < 0 THEN "-Infinity" ELSE "NaN",
          tenths |-> 0]
    ELSE [kind |-> "number", tenths |-> ToFixed1(sim - start, total)]

\* formatTimeHMS(seconds), with the argument in ms  (lines 520-525)
formatTimeHMS(ms) ==
    LET sec == ms \div 1000
    IN  <<sec \div 3600, (sec % 3600) \div 60, sec % 60>>

\* startTime + elapsedReal * playbackRate  (lines 544-545)
SimTime(start, nowMs, startMs, rate) == start + (nowMs - startMs) * rate

HEARTBEAT_SIM_INTERVAL == 5

\* HeartbeatDue with > for >=
HeartbeatDueStrict(sim, last) == sim - last > HEARTBEAT_SIM_INTERVAL * 1000

\* the heartbeat test of line 547
HeartbeatDue(sim, last) == sim - last >= HEARTBEAT_SIM_INTERVAL * 1000

\* a tick shortened by the rate
TickScaledByRate == 50 \div playbackRate

\* the delay of the setTimeout of line 567
TickMs == 50

\* Drain handing a batch to onSend newest first
RECURSIVE DrainNewestFirst(_, _, _, _, _)
DrainNewestFirst(pk, i, sim, elapsed, calls) ==
    IF i < Len(pk) /\ Instant(pk[i + 1]) <= sim
    THEN LET packet   == pk[i + 1]
             sentence == TrimEnd(TrimStart(BufferToString(packet.data)))
         IN  DrainNewestFirst(pk, i + 1, sim, elapsed,
                   IF sentence # <<>> /\ Head(sentence) = "!"
                   THEN <<[index      |-> i,
                           packetTime |-> Instant(packet),
                           sentence   |-> sentence,
                           simTime    |-> sim,
                           elapsedMs  |-> elapsed]>> \o calls
                   ELSE calls)
    ELSE [index |-> i, calls |-> calls]

\* Drain skipping, while catching up, the packets that are over a second late
RECURSIVE DrainDropStale(_, _, _, _, _)
DrainDropStale(pk, i, sim, elapsed, calls) ==
    IF i < Len(pk) /\ Instant(pk[i + 1]) <= sim
    THEN LET packet   == pk[i + 1]
             sentence == TrimEnd(TrimStart(BufferToString(packet.data)))
         IN  DrainDropStale(pk, i + 1, sim, elapsed,
                   IF sentence # <<>> /\ Head(sentence) = "!"
                      /\ sim - Instant(packet) <= 1000
                   THEN Append(calls, [index      |-> i,
                                       packetTime |-> Instant(packet),
                                       sentence   |-> sentence,
                                       simTime    |-> sim,
                                       elapsedMs  |-> elapsed])
                   ELSE calls)
    ELSE [index |-> i, calls |-> calls]

\* Drain with an if for the inner while: at most one packet per poll
DrainOne(pk, i, sim, elapsed, calls) ==
    IF i < Len(pk) /\ Instant(pk[i + 1]) <= sim
    THEN LET packet   == pk[i + 1]
             sentence == TrimEnd(TrimStart(BufferToString(packet.data)))
         IN  [index |-> i + 1,
              calls |-> IF sentence # <<>> /\ Head(sentence) = "!"
                        THEN Append(calls, [index      |-> i,
                                            packetTime |-> Instant(packet),
                                            sentence   |-> sentence,
                                            simTime    |-> sim,
                                            elapsedMs  |-> elapsed])
                        ELSE calls]
    ELSE [index |-> i, calls |-> calls]

\* The drain loop (lines 556-565): from cursor i, take packets while they are
\* due, calling onSend for those whose trimmed text starts with '!'.
\* Yields the new cursor and the onSend calls made, in order.
RECURSIVE Drain(_, _, _, _, _)
Drain(pk, i, sim, elapsed, calls) ==
    IF i < Len(pk) /\ Due(pk[i + 1], sim)
    THEN LET packet   == pk[i + 1]
             sentence == Sentence(packet)
         IN  Drain(pk, i + 1, sim, elapsed,
                   IF StartsWithBang(sentence)
                   THEN Append(calls, [index      |-> i,
                                       packetTime |-> Instant(packet),
                                       sentence   |-> sentence,
                                       simTime    |-> sim,
                                       elapsedMs  |-> elapsed])
                   ELSE calls)
    ELSE [index |-> i, calls |-> calls]

(***************************************************************************)
(* Format readers (lines 431-482)                                          *)
(*                                                                         *)
(* A binary file is a sequence of bytes (0..255); a text file is a         *)
(* sequence of characters.  The bytes of the model keep every 32-bit field *)
(* below 2^31.                                                             *)
(***************************************************************************)
Min(a, b) == IF a <= b THEN a ELSE b

\* buffer.readUInt32LE(offset)  (lines 431-433)
readUInt32LE(buffer, offset) ==
    buffer[offset + 1] + 256 * buffer[offset + 2]
        + 65536 * buffer[offset + 3] + 16777216 * buffer[offset + 4]

\* Buffer.prototype.slice(from, to): the end is clamped to the length
BufferSlice(buffer, from, to) == SubSeq(buffer, from + 1, Min(to, Len(buffer)))

\* the loop of parseBinFile without the test of line 446
RECURSIVE parseBinLoopUnchecked(_, _, _)
parseBinLoopUnchecked(fileBuffer, offset, out) ==
    IF offset + 12 <= Len(fileBuffer)
    THEN LET packetSize == readUInt32LE(fileBuffer, offset + 8)
         IN  parseBinLoopUnchecked(fileBuffer, offset + 12 + packetSize,
                 Append(out,
                        [timestampSec  |-> readUInt32LE(fileBuffer, offset),
                         timestampUsec |-> readUInt32LE(fileBuffer, offset + 4),
                         data |-> BufferSlice(fileBuffer, offset + 12,
                                              offset + 12 + packetSize)]))
    ELSE [aisPackets |-> out, warned |-> FALSE]

\* the while loop of parseBinFile (lines 440-455), from a given offset
RECURSIVE parseBinLoop(_, _, _)
parseBinLoop(fileBuffer, offset, out) ==
    IF offset + 12 <= Len(fileBuffer)
    THEN LET timestampSec  == readUInt32LE(fileBuffer, offset)
             timestampUsec == readUInt32LE(fileBuffer, offset + 4)
             packetSize    == readUInt32LE(fileBuffer, offset + 8)
             payloadAt     == offset + 12
         IN  IF payloadAt + packetSize > Len(fileBuffer)
             THEN [aisPackets |-> out, warned |-> TRUE]
             ELSE parseBinLoop(fileBuffer, payloadAt + packetSize,
                      Append(out,
                             [timestampSec  |-> timestampSec,
                              timestampUsec |-> timestampUsec,
                              data |-> BufferSlice(fileBuffer, payloadAt,
                                                   payloadAt + packetSize)]))
    ELSE [aisPackets |-> out, warned |-> FALSE]

\* parseBinFile on the bytes of the file: the packets, and whether the
\* 'Incomplete packet at end of file' warning was printed
parseBinFile(fileBuffer) == parseBinLoop(fileBuffer, 0, <<>>)

Digits == {"0", "1", "2", "3", "4", "5", "6", "7", "8", "9"}

\* \w, for the characters the model's files use
WordChars == Digits \cup {"A", "B", "X", "a", "c", "s", "x", "_"}

DigitValue(c) ==
    CASE c = "0" -> 0 [] c = "1" -> 1 [] c = "2" -> 2 [] c = "3" -> 3
      [] c = "4" -> 4 [] c = "5" -> 5 [] c = "6" -> 6 [] c = "7" -> 7
      [] c = "8" -> 8 [] OTHER -> 9

\* parseInt(digits, 10) of a non-empty run of digits
RECURSIVE parseInt(_)
parseInt(digits) ==
    IF digits = <<>> THEN 0
    ELSE 10 * parseInt(SubSeq(digits, 1, Len(digits) - 1))
            + DigitValue(digits[Len(digits)])

\* Buffer.from(sentence, 'utf-8'), for the characters the model's files use
ByteOf(c) ==
    CASE c = "!" -> 33
      [] c = "A" -> 65
      [] c = "B" -> 66
      [] c = "$" -> 36
      [] c = "X" -> 88
      [] c = " " -> 32
      [] c = "\n" -> 10
      [] c = "\r" -> 13
      [] c = "\t" -> 9
      [] OTHER   -> 63

BufferFrom(sentence) == [k \in 1..Len(sentence) |-> ByteOf(sentence[k])]

\* text.split(/\r?\n/)
RECURSIVE SplitLines(_, _, _)
SplitLines(text, i, line) ==
    IF i > Len(text) THEN <<line>>
    ELSE IF text[i] = "\n" THEN <<line>> \o SplitLines(text, i + 1, <<>>)
    ELSE IF text[i] = "\r" /\ i < Len(text) /\ text[i + 1] = "\n"
         THEN <<line>> \o SplitLines(text, i + 2, <<>>)
    ELSE SplitLines(text, i + 1, Append(line, text[i]))

\* first position at or after i whose character is not in class
RECURSIVE RunEnd(_, _, _)
RunEnd(line, i, class) ==
    IF i <= Len(line) /\ line[i] \in class THEN RunEnd(line, i + 1, class) ELSE i

\* /c:(\d+)\*\w+\\(.*)/ tried at position p: the two groups if it matches
MatchAt(line, p) ==
    LET d0 == p + 2
        d1 == RunEnd(line, d0, Digits)
        w0 == d1 + 1
        w1 == RunEnd(line, w0, WordChars)
        b1 == RunEnd(line, w1 + 1, {c \in {line[k] : k \in 1..Len(line)} : c \notin {"\n", "\r"}})
    IN  IF /\ p + 1 <= Len(line) /\ line[p] = "c" /\ line[p + 1] = ":"
           /\ d1 > d0 /\ d1 <= Len(line) /\ line[d1] = "*"
           /\ w1 > w0 /\ w1 <= Len(line) /\ line[w1] = "\\"
        THEN [matched |-> TRUE,
              digits  |-> SubSeq(line, d0, d1 - 1),
              body    |-> SubSeq(line, w1 + 1, b1 - 1)]
        ELSE [matched |-> FALSE, digits |-> <<>>, body |-> <<>>]

\* line.match(...): the leftmost match
RECURSIVE LineMatch(_, _)
LineMatch(line, p) ==
    IF p > Len(line) THEN [matched |-> FALSE, digits |-> <<>>, body |-> <<>>]
    ELSE IF MatchAt(line, p).matched THEN MatchAt(line, p)
    ELSE LineMatch(line, p + 1)

\* HasSentinel accepting the sentinel anywhere in the line
HasSentinelAnywhere(line) ==
    \E k \in 1..(Len(line) - 2) :
        line[k] = "\\" /\ line[k + 1] = "s" /\ line[k + 2] = ":"

\* line.startsWith('\\s:')
HasSentinel(line) ==
    Len(line) >= 3 /\ line[1] = "\\" /\ line[2] = "s" /\ line[3] = ":"

\* the body of the for loop of parseNm4File (lines 465-478) on the lines
\* from index i on
RECURSIVE parseNm4Lines(_, _, _)
parseNm4Lines(lines, i, out) ==
    IF i > Len(lines) THEN out
    ELSE LET line     == lines[i]
             match    == LineMatch(line, 1)
             sentence == TrimEnd(TrimStart(match.body))
         IN  IF ~HasSentinel(line) THEN parseNm4Lines(lines, i + 1, out)
             ELSE IF ~match.matched THEN parseNm4Lines(lines, i + 1, out)
             ELSE IF ~StartsWithBang(sentence) THEN parseNm4Lines(lines, i + 1, out)
             ELSE parseNm4Lines(lines, i + 1,
                      Append(out, [timestampSec  |-> parseInt(match.digits),
                                       timestampUsec |-> 0,
                                       data          |-> BufferFrom(sentence)]))

\* parseNm4File on the text of the file
parseNm4File(text) == parseNm4Lines(SplitLines(text, 1, <<>>), 1, <<>>)

(***************************************************************************)
(* Files on disk.  A file is written from records: frames of the binary    *)
(* layout followed by an incomplete tail, or lines of text.                *)
(***************************************************************************)
MaxFrames == 2
MaxLines == 2

\* the four bytes of an unsigned 32-bit field, little-endian
UInt32LE(n) ==
    <<n % 256, (n \div 256) % 256, (n \div 65536) % 256, (n \div 16777216) % 256>>

\* one frame: 12-byte header (seconds, microseconds, payload length), payload
EncodeFrame(pkt) ==
    UInt32LE(pkt.timestampSec) \o UInt32LE(pkt.timestampUsec)
        \o UInt32LE(Len(pkt.data)) \o pkt.data

RECURSIVE EncodeFrames(_)
EncodeFrames(frames) ==
    IF frames = <<>> THEN <<>>
    ELSE EncodeFrame(Head(frames)) \o EncodeFrames(Tail(frames))

FramePool ==
    PacketPool \cup { [timestampSec |-> 1001, timestampUsec |-> 0, data |-> <<>>] }

\* What may follow the last complete frame: nothing, a cut header, a header
\* whose payload is cut or absent.
BinTails ==
    { <<>>,
      <<232, 3, 0>>,
      UInt32LE(1000) \o UInt32LE(0) \o <<5, 0, 0>>,
      UInt32LE(1000) \o UInt32LE(0) \o UInt32LE(5) \o <<33, 65>>,
      UInt32LE(1000) \o UInt32LE(0) \o UInt32LE(1) }

BinFiles(maxFrames) ==
    { [readable |-> TRUE,
       content  |-> EncodeFrames(f) \o t,
       written  |-> f] : f \in SeqsUpTo(FramePool, maxFrames), t \in BinTails }

DigitChar(d) ==
    CASE d = 0 -> "0" [] d = 1 -> "1" [] d = 2 -> "2" [] d = 3 -> "3"
      [] d = 4 -> "4" [] d = 5 -> "5" [] d = 6 -> "6" [] d = 7 -> "7"
      [] d = 8 -> "8" [] OTHER -> "9"

\* the decimal digits of a natural number
RECURSIVE FormatDigits(_)
FormatDigits(n) ==
    IF n < 10 THEN <<DigitChar(n)>>
    ELSE Append(FormatDigits(n \div 10), DigitChar(n % 10))

\* a record line:  \s:x,c:<seconds>*5A\<body>
Nm4Line(seconds, body) ==
    <<"\\", "s", ":", "x", ",", "c", ":">> \o FormatDigits(seconds)
        \o <<"*", "5", "A", "\\">> \o body

\* Lines of a text file: records, and lines that are not records (no
\* sentinel, sentinel not at the start, no body separator, no digits, a body
\* that does not start with '!', an empty line).
LinePool ==
    { [text   |-> Nm4Line(1000, <<"!", "A">>),
       record |-> <<[timestampSec |-> 1000, timestampUsec |-> 0, data |-> <<33, 65>>]>>],
      [text   |-> Nm4Line(1002, <<" ", "!", "B", " ">>),
       record |-> <<[timestampSec |-> 1002, timestampUsec |-> 0, data |-> <<33, 66>>]>>],
      [text   |-> <<"!", "A">>, record |-> <<>>],
      [text   |-> <<"x">> \o Nm4Line(1000, <<"!", "A">>), record |-> <<>>],
      [text   |-> <<"\\", "s", ":", "x", ",", "c", ":", "1", "0", "0", "0", "*", "5", "A">>,
       record |-> <<>>],
      [text   |-> <<"\\", "s", ":", "x", ",", "c", ":", "*", "5", "A", "\\", "!", "A">>,
       record |-> <<>>],
      [text   |-> Nm4Line(1000, <<"$", "X">>), record |-> <<>>],
      [text   |-> <<>>, record |-> <<>>] }

LineEnds == { <<"\n">>, <<"\r", "\n">> }

RECURSIVE JoinLines(_, _)
JoinLines(entries, eol) ==
    IF entries = <<>> THEN <<>>
    ELSE Head(entries).text \o eol \o JoinLines(Tail(entries), eol)

RECURSIVE RecordsOf(_)
RecordsOf(entries) ==
    IF entries = <<>> THEN <<>>
    ELSE Head(entries).record \o RecordsOf(Tail(entries))

Nm4Files(maxLines) ==
    { [readable |-> TRUE,
       content  |-> JoinLines(e, eol),
       written  |-> RecordsOf(e)] : e \in SeqsUpTo(LinePool, maxLines), eol \in LineEnds }

MissingFile == [readable |-> FALSE, content |-> <<>>, written |-> <<>>]

(***************************************************************************)
(* The script around the scheduler (lines 396-411 and 571-634)            *)
(***************************************************************************)
\* Number(args.rate), for an optional sign and decimal digits; the value of
\* a string that is not a number is NaN
ToNumber(chars) ==
    LET t      == TrimEnd(TrimStart(chars))
        signed == t # <<>> /\ Head(t) = "-"
        digits == IF signed THEN Tail(t) ELSE t
    IN  IF t = <<>> THEN [nan |-> FALSE, value |-> 0]
        ELSE IF digits # <<>> /\ \A k \in 1..Len(digits) : digits[k] \in Digits
             THEN [nan |-> FALSE,
                   value |-> IF signed THEN 0 - parseInt(digits) ELSE parseInt(digits)]
             ELSE [nan |-> TRUE, value |-> 0]

\* RateAccepted without the isNaN test
RateAcceptedUnlessNotPositive(n) == ~(~n.nan /\ n.value <= 0)

\* the test of line 408, negated
RateAccepted(n) == ~(n.nan \/ n.value <= 0)

DEFAULT_TOPIC == <<"producers", "ais", "data">>

\* replaceDataWithControl(path), on the path split at '/'  (lines 365-372)
replaceDataWithControl(parts) ==
    IF Len(parts) >= 3 /\ parts[1] = "producers" /\ parts[3] = "data"
    THEN [parts EXCEPT ![3] = "control"]
    ELSE parts

Line(label, value) == [label |-> label, value |-> value]

\* aisReceiver.extractSentenceRawFields(sentence): an identifier, no
\* identifier, or an exception, as the collaborator decides
Extract(sentence) ==
    IF sentence \in DOMAIN collab.extract THEN collab.extract[sentence] ELSE "none"

\* the for loop of printFileStats (lines 501-506)
RECURSIVE StatsScan(_, _, _)
StatsScan(pk, i, mmsiSet) ==
    IF i > Len(pk) THEN [threw |-> FALSE, mmsiSet |-> mmsiSet]
    ELSE LET sentence == TrimEnd(TrimStart(BufferToString(pk[i].data)))
         IN  IF ~StartsWithBang(sentence) THEN StatsScan(pk, i + 1, mmsiSet)
             ELSE IF Extract(sentence) = "throw" THEN [threw |-> TRUE, mmsiSet |-> mmsiSet]
             ELSE IF Extract(sentence) = "none" THEN StatsScan(pk, i + 1, mmsiSet)
             ELSE StatsScan(pk, i + 1, mmsiSet \cup {Extract(sentence)})

\* x / y rounded to the nearest integer, ties away from zero (toFixed)
RoundDiv(x, y) == IF x >= 0 THEN (2 * x + y) \div (2 * y) ELSE 0 - ((2 * (0 - x) + y) \div (2 * y))

\* StatsReport with the duration divided by the playback rate
StatsReportAtRate(pk) ==
    LET isNm4    == \A i \in 1..Len(pk) : pk[i].timestampUsec = 0
        start    == Instant(pk[1])
        end      == Instant(pk[Len(pk)])
        duration == (end - start) \div playbackRate
        scan     == StatsScan(pk, 1, {})
    IN  IF scan.threw THEN [threw |-> TRUE, lines |-> <<>>]
        ELSE [threw |-> FALSE,
              lines |-> << Line("=== AIS File Statistics ===", 0),
                           Line("File: " \o args.file, 0),
                           Line(IF isNm4 THEN "Type: .nm4 (text)" ELSE "Type: .bin (binary)", 0),
                           Line("Number of packets", Len(pk)),
                           Line("Unique MMSIs (vessels)", Cardinality(scan.mmsiSet)),
                           Line("Start time (UTC)", start),
                           Line("End time   (UTC)", end),
                           Line("Duration (seconds)", duration),
                           Line("Duration (hours)", RoundDiv(duration, 3600)),
                           Line("============================", 0) >>]

\* the lines printed for a non-empty sequence (lines 494-517)
StatsReport(pk) ==
    LET isNm4    == \A i \in 1..Len(pk) : pk[i].timestampUsec = 0
        start    == Instant(pk[1])
        end      == Instant(pk[Len(pk)])
        duration == end - start
        scan     == StatsScan(pk, 1, {})
    IN  IF scan.threw THEN [threw |-> TRUE, lines |-> <<>>]
        ELSE [threw |-> FALSE,
              lines |-> << Line("=== AIS File Statistics ===", 0),
                           Line("File: " \o args.file, 0),
                           Line(IF isNm4 THEN "Type: .nm4 (text)" ELSE "Type: .bin (binary)", 0),
                           Line("Number of packets", Len(pk)),
                           Line("Unique MMSIs (vessels)", Cardinality(scan.mmsiSet)),
                           Line("Start time (UTC)", start),
                           Line("End time   (UTC)", end),
                           Line("Duration (seconds)", duration),
                           Line("Duration (hours)", RoundDiv(duration, 3600)),
                           Line("============================", 0) >>]

\* printFileStats without the test for an empty sequence: packets[0] is
\* undefined and reading its timestampSec throws
printFileStatsUnguarded(pk) ==
    IF Len(pk) = 0 THEN [threw |-> TRUE, lines |-> <<>>] ELSE StatsReport(pk)

\* printFileStats(packets)  (lines 488-518): the lines printed, or an
\* exception of the extractor
printFileStats(pk) ==
    IF Len(pk) = 0
    THEN [threw |-> FALSE, lines |-> <<Line("No packets found in the file.", 0)>>]
    ELSE StatsReport(pk)

\* MessageProducerSTOMP.sendMessage(path, message)  (part_000 lines 89-97);
\* the broker client's send throws for the destinations the collaborator
\* names
SendMessage(prod, path, message) ==
    IF prod.state # "connected"
    THEN [producer |-> prod, threw |-> FALSE, warned |-> TRUE]
    ELSE IF path[Len(path)] \in collab.sendThrows
         THEN [producer |-> prod, threw |-> TRUE, warned |-> FALSE]
         ELSE [producer |-> [prod EXCEPT !.sent = Append(@, [path |-> path, message |-> message])],
               threw |-> FALSE, warned |-> FALSE]

\* onSend without its try / catch
OnSendUncaught(oscall, io) ==
    LET mmsi == Extract(oscall.sentence)
        send == SendMessage(io.producer, Append(DEFAULT_TOPIC, mmsi), oscall.sentence)
    IN  IF mmsi = "throw" THEN [io |-> io, escaped |-> TRUE]
        ELSE IF mmsi = "none"
             THEN [io |-> [io EXCEPT !.stderr = Append(@, Line("Skipping: no MMSI found", oscall.index))],
                   escaped |-> FALSE]
        ELSE IF send.threw THEN [io |-> io, escaped |-> TRUE]
        ELSE [io |-> [producer |-> send.producer,
                      stdout   |-> Append(io.stdout, Line("sent", oscall.index)),
                      stderr   |-> IF send.warned
                                   THEN Append(io.stderr, Line("STOMP client not connected", oscall.index))
                                   ELSE io.stderr],
              escaped |-> FALSE]

\* The onSend closure of main (lines 607-624) applied to one call: what it
\* does to the producer and the console, and whether an exception leaves it.
OnSend(oscall, io) ==
    LET mmsi   == Extract(oscall.sentence)
        send   == SendMessage(io.producer, Append(DEFAULT_TOPIC, mmsi), oscall.sentence)
        caught == [io |-> [io EXCEPT !.stderr = Append(@, Line("Failed to send or parse sentence", oscall.index))],
                   escaped |-> FALSE]
    IN  IF mmsi = "throw" THEN caught
        ELSE IF mmsi = "none"
             THEN [io |-> [io EXCEPT !.stderr = Append(@, Line("Skipping: no MMSI found", oscall.index))],
                   escaped |-> FALSE]
        ELSE IF send.threw THEN caught
        ELSE [io |-> [producer |-> send.producer,
                      stdout   |-> Append(io.stdout, Line("sent", oscall.index)),
                      stderr   |-> IF send.warned
                                   THEN Append(io.stderr, Line("STOMP client not connected", oscall.index))
                                   ELSE io.stderr],
              escaped |-> FALSE]

\* The calls the drain loop makes, one after the other, up to the first one
\* that lets an exception out: the resulting producer and console, and the
\* number of calls made.
RECURSIVE DispatchAll(_, _, _)
DispatchAll(calls, k, io) ==
    IF k > Len(calls) THEN [io |-> io, made |-> Len(calls), escaped |-> FALSE]
    ELSE LET r == OnSend(calls[k], io)
         IN  IF r.escaped THEN [io |-> r.io, made |-> k, escaped |-> TRUE]
             ELSE DispatchAll(calls, k + 1, r.io)

(***************************************************************************)
(* The onSend that skips repeats (lines 291-314)                          *)
(***************************************************************************)
\* PacketKey without the packet time
PacketKeyOfSentence(packetTime, sentence) == <<"|">> \o sentence

\* `${packetTime}|${sentence}`  (line 294); the time is written in decimal
PacketKey(packetTime, sentence) == FormatDigits(packetTime) \o <<"|">> \o sentence

\* let lastPacketKey = null  (line 291): no key is the empty text
NoPacketKey == <<>>

\* The onSend closure of lines 292-314 applied to one call: a call whose key
\* is the key kept returns at once; any other call keeps its key and goes on
\* as the onSend of lines 607-624 does.
OnSendSkippingRepeats(oscall, io, last) ==
    LET key == PacketKey(oscall.packetTime, oscall.sentence)
    IN  IF key = last
        THEN [io |-> io, escaped |-> FALSE, lastPacketKey |-> last]
        ELSE [io |-> OnSend(oscall, io).io, escaped |-> OnSend(oscall, io).escaped,
              lastPacketKey |-> key]

(***************************************************************************)
(* MessageProducerSTOMP (part_000 lines 5-109)                             *)
(*                                                                         *)
(* Clients, promises and timers are numbered from 1 in the order of their  *)
(* creation; 0 stands for null.  A client is "connecting" until its        *)
(* CONNECTED frame, "errored" after an ERROR frame (the socket still       *)
(* open), and "closed" once its socket is closed.                          *)
(***************************************************************************)
MaxClients == 3
MaxSends == 2

\* setTimeout(..., 10000)  (line 75)
RECONNECT_DELAY == 10000

\* the constructor, lines 14-32
NewProducer ==
    [stompClient |-> 0, prospectStompClient |-> 0, connected |-> FALSE,
     connectionResolve |-> 0, reconnectTimeout |-> 0]

\* nothing created yet
NoNet ==
    [clients |-> <<>>, promises |-> <<>>, timers |-> <<>>, wire |-> <<>>,
     caller |-> "off", sends |-> 0, lastSend |-> "none", disconnects |-> 0]

SinkIdle ==
    /\ lastPacketKey = NoPacketKey
    /\ stomp = NewProducer
    /\ net = NoNet

\* init(), lines 34-52: a new promise whose resolve replaces the one kept,
\* and a new client that starts to connect
init(st, nt) ==
    [stomp |-> [st EXCEPT !.connectionResolve = Len(nt.promises) + 1,
                          !.prospectStompClient = Len(nt.clients) + 1],
     net   |-> [nt EXCEPT !.promises = Append(@, "pending"),
                          !.clients = Append(@, "connecting")]]

\* _onConnect(frame), lines 54-62
onConnect(st, nt) ==
    [stomp |-> [st EXCEPT !.stompClient = st.prospectStompClient,
                          !.connected = TRUE,
                          !.connectionResolve = 0],
     net   |-> IF st.connectionResolve # 0
               THEN [nt EXCEPT !.promises[st.connectionResolve] = "resolved"]
               ELSE nt]

\* _onError without the clearTimeout
onErrorKeepingTimer(st, nt) ==
    [stomp |-> [st EXCEPT !.connected = FALSE,
                          !.stompClient = 0,
                          !.prospectStompClient = 0,
                          !.reconnectTimeout = Len(nt.timers) + 1],
     net   |-> [nt EXCEPT !.timers =
                    Append(@, [status |-> "pending", delay |-> RECONNECT_DELAY])]]

\* _onError(error), lines 64-76: the timer kept is cleared (clearing one
\* that has fired does nothing) and a new one is set
onError(st, nt) ==
    LET cleared == IF st.reconnectTimeout # 0
                      /\ nt.timers[st.reconnectTimeout].status = "pending"
                   THEN [nt.timers EXCEPT ![st.reconnectTimeout].status = "cleared"]
                   ELSE nt.timers
    IN  [stomp |-> [st EXCEPT !.connected = FALSE,
                              !.stompClient = 0,
                              !.prospectStompClient = 0,
                              !.reconnectTimeout = Len(nt.timers) + 1],
         net   |-> [nt EXCEPT !.timers =
                        Append(cleared, [status |-> "pending", delay |-> RECONNECT_DELAY])]]

\* sendMessage without the test of line 90: stompClient.send on null throws
sendMessageUnchecked(st, nt, path, message) ==
    IF st.stompClient = 0
    THEN [stomp |-> st, net |-> [nt EXCEPT !.lastSend = "threw"]]
    ELSE [stomp |-> st,
          net   |-> [nt EXCEPT !.wire = Append(@, [client |-> st.stompClient,
                                                   path |-> path, message |-> message]),
                               !.lastSend = "sent"]]

\* sendMessage(path, message), lines 89-97
sendMessage(st, nt, path, message) ==
    IF ~st.connected \/ st.stompClient = 0
    THEN [stomp |-> st, net |-> [nt EXCEPT !.lastSend = "dropped"]]
    ELSE [stomp |-> st,
          net   |-> [nt EXCEPT !.wire = Append(@, [client |-> st.stompClient,
                                                   path |-> path, message |-> message]),
                               !.lastSend = "sent"]]

\* disconnect(), lines 99-108: the client's own disconnect closes its socket
\* without a further callback
disconnect(st, nt) ==
    IF st.stompClient # 0
    THEN [stomp |-> [st EXCEPT !.connected = FALSE,
                               !.stompClient = 0,
                               !.prospectStompClient = 0],
          net   |-> [nt EXCEPT !.clients[st.stompClient] = "closed"]]
    ELSE [stomp |-> st, net |-> nt]

(***************************************************************************)
(* State machine                                                           *)
(***************************************************************************)
\* No program around the scheduler: playPackets is driven on its own, with a
\* callback that only records its calls.
SchedulerAlone ==
    /\ args = [help |-> FALSE, info |-> FALSE, broker |-> FALSE, rate |-> <<>>,
               file |-> "none"]
    /\ disk = [readable |-> FALSE, content |-> <<>>]
    /\ mainPc = "off"
    /\ exitCode = 0 - 1
    /\ aisPackets = <<>>
    /\ stdout = <<>>
    /\ stderr = <<>>
    /\ producer = [state |-> "none", sent |-> <<>>]
    /\ collab = [extract |-> <<>>, sendThrows |-> {}]
    /\ written = <<>>
    /\ prevRun = [ran |-> FALSE, rate |-> <<>>, stdout |-> <<>>, exitCode |-> 0 - 1]
    /\ SinkIdle

Init ==
    /\ SchedulerAlone
    /\ packets \in PacketSeqs
    /\ playbackRate \in Rates
    /\ clockKind \in ClockKinds
    /\ clock = 0
    /\ pc = "entry"
    /\ startTime = 0
    /\ endTime = 0
    /\ totalDuration = 0
    /\ playbackStart = 0
    /\ packetIndex = 0
    /\ lastHeartbeatSimTime = 0
    /\ simulatedTime = 0
    /\ onSendCalls = <<>>
    /\ heartbeats = <<>>
    /\ logged = <<>>
    /\ timeoutMs = 0
    /\ suspended = FALSE
    /\ returnedAt = 0
    /\ call = 1
    /\ prevCalls = <<>>
    /\ prevRate = 0

\* Enter without the early return for an empty sequence: the loop test is
\* reached only after a first tick.
EnterTickFirst ==
    /\ pc = "entry"
    /\ IF Len(packets) = 0
       THEN /\ pc' = "sleeping"
            /\ timeoutMs' = TickMs
            /\ suspended' = TRUE
            /\ UNCHANGED <<clock, startTime, endTime, totalDuration,
                           playbackStart, lastHeartbeatSimTime>>
       ELSE /\ startTime' = Instant(packets[1])
            /\ endTime' = Instant(packets[Len(packets)])
            /\ totalDuration' = Instant(packets[Len(packets)]) - Instant(packets[1])
            /\ playbackStart' = clock
            /\ lastHeartbeatSimTime' = Instant(packets[1])
            /\ \E d \in EntryDelay(clockKind) : clock' = clock + d
            /\ pc' = "loop"
            /\ UNCHANGED <<timeoutMs, suspended>>
    /\ packetIndex' = 0
    /\ UNCHANGED <<packets, playbackRate, clockKind, simulatedTime,
                   onSendCalls, heartbeats, logged, returnedAt, call,
                   prevCalls, prevRate, mainVars>>

\* playPackets is called: lines 528-540, up to the first test of the loop.
Enter ==
    /\ pc = "entry"
    /\ IF Len(packets) = 0
       THEN /\ logged' = Append(logged, "No packets to play")
            /\ pc' = "done"
            /\ returnedAt' = clock
            /\ UNCHANGED <<clock, startTime, endTime, totalDuration,
                           playbackStart, lastHeartbeatSimTime>>
       ELSE /\ startTime' = Instant(packets[1])
            /\ endTime' = Instant(packets[Len(packets)])
            /\ totalDuration' = Instant(packets[Len(packets)]) - Instant(packets[1])
            /\ playbackStart' = clock
            /\ lastHeartbeatSimTime' = Instant(packets[1])
            /\ \E d \in EntryDelay(clockKind) : clock' = clock + d
            /\ pc' = "loop"
            /\ UNCHANGED <<logged, returnedAt>>
    /\ packetIndex' = 0
    /\ UNCHANGED <<packets, playbackRate, clockKind, simulatedTime,
                   onSendCalls, heartbeats, timeoutMs, suspended, call,
                   prevCalls, prevRate, mainVars>>

\* One body of the while loop (lines 543-567), up to the await.  Under main
\* the callback is main's onSend; an exception leaving it would end the drain
\* loop and reject the promise of playPackets.
Poll ==
    /\ pc = "loop"
    /\ packetIndex < Len(packets)
    /\ LET now        == clock
           sim        == SimTime(startTime, now, playbackStart, playbackRate)
           drained    == Drain(packets, packetIndex, sim, now - playbackStart, <<>>)
           io         == [producer |-> producer, stdout |-> stdout, stderr |-> stderr]
           result     == IF mainPc = "playing"
                         THEN DispatchAll(drained.calls, 1, io)
                         ELSE [io |-> io, made |-> Len(drained.calls), escaped |-> FALSE]
       IN  /\ simulatedTime' = sim
           /\ IF HeartbeatDue(sim, lastHeartbeatSimTime)
              THEN /\ lastHeartbeatSimTime' = sim
                   /\ heartbeats' = Append(heartbeats,
                        [simTime       |-> sim,
                         percentPlayed |-> PercentPlayed(sim, startTime, totalDuration),
                         remaining     |-> formatTimeHMS(Max(0, endTime - sim))])
              ELSE UNCHANGED <<lastHeartbeatSimTime, heartbeats>>
           /\ onSendCalls' = onSendCalls \o SubSeq(drained.calls, 1, result.made)
           /\ producer' = result.io.producer
           /\ stdout' = result.io.stdout
           /\ stderr' = result.io.stderr
           /\ IF result.escaped
              THEN /\ packetIndex' = drained.calls[result.made].index + 1
                   /\ pc' = "rejected"
                   /\ UNCHANGED <<timeoutMs, suspended>>
              ELSE /\ packetIndex' = drained.index
                   /\ timeoutMs' = TickMs
                   /\ suspended' = TRUE
                   /\ pc' = "sleeping"
    /\ UNCHANGED <<packets, playbackRate, clockKind, clock, startTime, endTime,
                   totalDuration, playbackStart, logged, returnedAt, call,
                   prevCalls, prevRate, args, disk, mainPc, exitCode,
                   aisPackets, collab, written, prevRun, sinkVars>>

\* The timer fires and the loop test is evaluated again.
Wake ==
    /\ pc = "sleeping"
    /\ \E d \in WakeAdvance(clockKind, timeoutMs) : clock' = clock + d
    /\ timeoutMs' = 0
    /\ pc' = "loop"
    /\ UNCHANGED <<packets, playbackRate, clockKind, startTime, endTime,
                   totalDuration, playbackStart, packetIndex,
                   lastHeartbeatSimTime, simulatedTime, onSendCalls,
                   heartbeats, logged, suspended, returnedAt, call, prevCalls,
                   prevRate, mainVars>>

\* The loop test fails (line 542): playPackets returns.
Return ==
    /\ pc = "loop"
    /\ packetIndex >= Len(packets)
    /\ pc' = "done"
    /\ returnedAt' = clock
    /\ UNCHANGED <<packets, playbackRate, clockKind, clock, startTime, endTime,
                   totalDuration, playbackStart, packetIndex,
                   lastHeartbeatSimTime, simulatedTime, onSendCalls,
                   heartbeats, logged, timeoutMs, suspended, call, prevCalls,
                   prevRate, mainVars>>

\* The same packets are played a second time, at any rate: a second run of
\* the program on the same file.
Replay ==
    /\ pc = "done"
    /\ call = 1
    /\ call' = 2
    /\ prevCalls' = [k \in 1..Len(onSendCalls) |->
                        <<onSendCalls[k].packetTime, onSendCalls[k].sentence>>]
    /\ prevRate' = playbackRate
    /\ \E r \in Rates : playbackRate' = r
    /\ pc' = "entry"
    /\ clock' = 0
    /\ startTime' = 0
    /\ endTime' = 0
    /\ totalDuration' = 0
    /\ playbackStart' = 0
    /\ packetIndex' = 0
    /\ lastHeartbeatSimTime' = 0
    /\ simulatedTime' = 0
    /\ onSendCalls' = <<>>
    /\ heartbeats' = <<>>
    /\ logged' = <<>>
    /\ timeoutMs' = 0
    /\ suspended' = FALSE
    /\ returnedAt' = 0
    /\ UNCHANGED <<packets, clockKind, mainVars>>

Next == Enter \/ Poll \/ Wake \/ Return \/ Replay

Spec == Init /\ [][Next]_vars

\* The event loop runs a timer that has expired and continues a function
\* that can continue.
FairSpec == Spec /\ WF_vars(Next)

TypeOK ==
    /\ pc \in {"idle", "entry", "loop", "sleeping", "done", "rejected"}
    /\ packetIndex \in 0..Len(packets)
    /\ call \in {1, 2}

(***************************************************************************)
(* The program: command line, file, statistics, producer, playback         *)
(***************************************************************************)
RateArgs == { <<"1">>, <<"2">>, <<"0">>, <<"-", "1">>, <<"a", "b", "c">>, <<>> }

PacketA == [timestampSec |-> 1000, timestampUsec |-> 0,      data |-> PayloadA]
PacketB == [timestampSec |-> 1002, timestampUsec |-> 500000, data |-> PayloadB]
PacketX == [timestampSec |-> 1010, timestampUsec |-> 10000,  data |-> PayloadX]

\* the files of the program runs: name extension, readable or not, content
ProgramFiles ==
    { [ext |-> "bin", readable |-> FALSE, content |-> <<>>, written |-> <<>>],
      [ext |-> "nm4", readable |-> FALSE, content |-> <<>>, written |-> <<>>],
      [ext |-> "bin", readable |-> TRUE, content |-> <<>>, written |-> <<>>],
      [ext |-> "bin", readable |-> TRUE,
       content |-> EncodeFrames(<<PacketA, PacketB, PacketX>>) \o <<232, 3, 0>>,
       written |-> <<PacketA, PacketB, PacketX>>],
      [ext |-> "bin", readable |-> TRUE,
       content |-> EncodeFrames(<<PacketA, PacketA>>),
       written |-> <<PacketA, PacketA>>],
      [ext |-> "nm4", readable |-> TRUE,
       content |-> Nm4Line(1000, <<"!", "A">>) \o <<"\r", "\n", "!", "A", "\r", "\n">>
                      \o Nm4Line(1002, <<" ", "!", "B", " ">>),
       written |-> <<[timestampSec |-> 1000, timestampUsec |-> 0, data |-> <<33, 65>>],
                     [timestampSec |-> 1002, timestampUsec |-> 0, data |-> <<33, 66>>]>>] }

SentenceA == <<"!", "A">>
SentenceB == <<"!", "B">>

\* what the extractor does with each sentence, and the destinations for
\* which the broker client throws
Collaborators ==
    { [extract |-> e, sendThrows |-> t] :
        e \in [{SentenceA, SentenceB} -> {"111", "222", "none", "throw"}],
        t \in {{}, {"222"}} }

SchedulerIdle ==
    /\ packets = <<>>
    /\ playbackRate = 0
    /\ clockKind = "exact"
    /\ clock = 0
    /\ pc = "idle"
    /\ startTime = 0
    /\ endTime = 0
    /\ totalDuration = 0
    /\ playbackStart = 0
    /\ packetIndex = 0
    /\ lastHeartbeatSimTime = 0
    /\ simulatedTime = 0
    /\ onSendCalls = <<>>
    /\ heartbeats = <<>>
    /\ logged = <<>>
    /\ timeoutMs = 0
    /\ suspended = FALSE
    /\ returnedAt = 0
    /\ call = 1
    /\ prevCalls = <<>>
    /\ prevRate = 0

ProcessStart ==
    /\ mainPc = "start"
    /\ exitCode = 0 - 1
    /\ aisPackets = <<>>
    /\ stdout = <<>>
    /\ stderr = <<>>
    /\ producer = [state |-> "none", sent |-> <<>>]
    /\ prevRun = [ran |-> FALSE, rate |-> <<>>, stdout |-> <<>>, exitCode |-> 0 - 1]
    /\ SinkIdle

MainInit ==
    /\ SchedulerIdle
    /\ ProcessStart
    /\ \E f \in ProgramFiles :
          /\ disk = [readable |-> f.readable, content |-> f.content]
          /\ written = f.written
          /\ \E h \in BOOLEAN, i \in BOOLEAN, b \in BOOLEAN, r \in RateArgs :
                args = [help |-> h, info |-> i, broker |-> b, rate |-> r, file |-> f.ext]
    /\ collab \in Collaborators

schedVars == <<packets, clockKind, clock, pc, startTime, endTime,
               totalDuration, playbackStart, packetIndex, lastHeartbeatSimTime,
               simulatedTime, onSendCalls, heartbeats, logged, timeoutMs,
               suspended, returnedAt, call, prevCalls, prevRate>>

\* process.exit(code)
Exit(code) ==
    /\ exitCode' = code
    /\ mainPc' = "exited"

\* The top-level script, lines 396-411: help, the broker requirement, the
\* rate.
Startup ==
    /\ mainPc = "start"
    /\ IF args.help
       THEN /\ stdout' = Append(stdout, Line("Usage", 0))
            /\ Exit(0)
            /\ UNCHANGED <<stderr, playbackRate>>
       ELSE IF ~args.broker /\ ~args.info
       THEN /\ stderr' = Append(stderr, Line("Error: broker is mandatory unless --info is used.", 0))
            /\ stdout' = Append(stdout, Line("Usage", 0))
            /\ Exit(1)
            /\ UNCHANGED playbackRate
       ELSE IF ~RateAccepted(ToNumber(args.rate))
       THEN /\ stderr' = Append(stderr, Line("Invalid playback rate", 0))
            /\ Exit(1)
            /\ UNCHANGED <<stdout, playbackRate>>
       ELSE /\ playbackRate' = ToNumber(args.rate).value
            /\ mainPc' = "main"
            /\ UNCHANGED <<stdout, stderr, exitCode>>
    /\ UNCHANGED <<schedVars, args, disk, aisPackets, producer, collab, written,
                   prevRun, sinkVars>>

\* ReadFile taking a file that cannot be read for an empty one
ReadFileOrEmpty ==
    /\ mainPc = "main"
    /\ IF ~disk.readable
       THEN /\ aisPackets' = <<>>
            /\ mainPc' = "parsed"
            /\ UNCHANGED <<stderr, exitCode>>
       ELSE IF args.file = "nm4"
       THEN /\ aisPackets' = parseNm4File(disk.content)
            /\ mainPc' = "parsed"
            /\ UNCHANGED <<stderr, exitCode>>
       ELSE /\ aisPackets' = parseBinFile(disk.content).aisPackets
            /\ stderr' = IF parseBinFile(disk.content).warned
                         THEN Append(stderr, Line("Incomplete packet at end of file", 0))
                         ELSE stderr
            /\ mainPc' = "parsed"
            /\ UNCHANGED exitCode
    /\ UNCHANGED <<schedVars, playbackRate, args, disk, stdout, producer,
                   collab, written, prevRun, sinkVars>>

\* main, lines 573-579: the file is read and parsed by its extension; a file
\* that cannot be read throws, which the catch of lines 630-633 turns into
\* exit status 1.
ReadFile ==
    /\ mainPc = "main"
    /\ IF ~disk.readable
       THEN /\ stderr' = Append(stderr, Line("Error:", 0))
            /\ Exit(1)
            /\ UNCHANGED aisPackets
       ELSE IF args.file = "nm4"
       THEN /\ aisPackets' = parseNm4File(disk.content)
            /\ mainPc' = "parsed"
            /\ UNCHANGED <<stderr, exitCode>>
       ELSE /\ aisPackets' = parseBinFile(disk.content).aisPackets
            /\ stderr' = IF parseBinFile(disk.content).warned
                         THEN Append(stderr, Line("Incomplete packet at end of file", 0))
                         ELSE stderr
            /\ mainPc' = "parsed"
            /\ UNCHANGED exitCode
    /\ UNCHANGED <<schedVars, playbackRate, args, disk, stdout, producer,
                   collab, written, prevRun, sinkVars>>

\* ShowInfo without the process.exit(0): main goes on to the producer
ShowInfoFallsThrough ==
    /\ mainPc = "parsed"
    /\ args.info
    /\ LET stats == printFileStats(aisPackets)
       IN  IF stats.threw
           THEN /\ stderr' = Append(stderr, Line("Error:", 0))
                /\ Exit(1)
                /\ UNCHANGED <<stdout, producer>>
           ELSE /\ stdout' = Append(stdout \o stats.lines,
                                    Line("Parsed AIS packets", Len(aisPackets)))
                /\ producer' = [state |-> "connecting", sent |-> <<>>]
                /\ mainPc' = "awaitInit"
                /\ UNCHANGED <<stderr, exitCode>>
    /\ UNCHANGED <<schedVars, playbackRate, args, disk, aisPackets, collab,
                   written, prevRun, sinkVars>>

\* main, lines 581-584: info mode prints the statistics and exits.
ShowInfo ==
    /\ mainPc = "parsed"
    /\ args.info
    /\ LET stats == printFileStats(aisPackets)
       IN  IF stats.threw
           THEN /\ stderr' = Append(stderr, Line("Error:", 0))
                /\ Exit(1)
                /\ UNCHANGED stdout
           ELSE /\ stdout' = stdout \o stats.lines
                /\ Exit(0)
                /\ UNCHANGED stderr
    /\ UNCHANGED <<schedVars, playbackRate, args, disk, aisPackets, producer,
                   collab, written, prevRun, sinkVars>>

\* main, lines 586-603: the producer is created and init() is awaited.
StartProducer ==
    /\ mainPc = "parsed"
    /\ ~args.info
    /\ stdout' = Append(stdout, Line("Parsed AIS packets", Len(aisPackets)))
    /\ producer' = [state |-> "connecting", sent |-> <<>>]
    /\ mainPc' = "awaitInit"
    /\ UNCHANGED <<schedVars, playbackRate, args, disk, exitCode, aisPackets,
                   stderr, collab, written, prevRun, sinkVars>>

\* InitResolved with the CLEAR message sent before init() is awaited: the
\* producer is not connected yet
InitResolvedAfterClear ==
    /\ mainPc = "awaitInit"
    /\ LET send == SendMessage(producer, replaceDataWithControl(DEFAULT_TOPIC),
                               <<"CLEAR">>)
       IN  producer' = [send.producer EXCEPT !.state = "connected"]
    /\ packets' = aisPackets
    /\ pc' = "entry"
    /\ mainPc' = "playing"
    /\ UNCHANGED <<playbackRate, clockKind, clock, startTime, endTime,
                   totalDuration, playbackStart, packetIndex,
                   lastHeartbeatSimTime, simulatedTime, onSendCalls,
                   heartbeats, logged, timeoutMs, suspended, returnedAt, call,
                   prevCalls, prevRate, args, disk, exitCode, aisPackets,
                   stdout, stderr, collab, written, prevRun, sinkVars>>

\* The broker accepts the connection: init() resolves and main goes on with
\* lines 604-626, the CLEAR control message and the call of playPackets.
InitResolved ==
    /\ mainPc = "awaitInit"
    /\ LET connected == [producer EXCEPT !.state = "connected"]
           send      == SendMessage(connected, replaceDataWithControl(DEFAULT_TOPIC),
                                    <<"CLEAR">>)
       IN  producer' = send.producer
    /\ packets' = aisPackets
    /\ pc' = "entry"
    /\ mainPc' = "playing"
    /\ UNCHANGED <<playbackRate, clockKind, clock, startTime, endTime,
                   totalDuration, playbackStart, packetIndex,
                   lastHeartbeatSimTime, simulatedTime, onSendCalls,
                   heartbeats, logged, timeoutMs, suspended, returnedAt, call,
                   prevCalls, prevRate, args, disk, exitCode, aisPackets,
                   stdout, stderr, collab, written, prevRun, sinkVars>>

\* main, lines 626-633: the promise of playPackets settles.
PlayPacketsSettled ==
    /\ mainPc = "playing"
    /\ pc \in {"done", "rejected"}
    /\ IF pc = "done"
       THEN /\ stdout' = Append(stdout, Line("Playback complete.", 0))
            /\ Exit(0)
            /\ UNCHANGED stderr
       ELSE /\ stderr' = Append(stderr, Line("Error:", 0))
            /\ Exit(1)
            /\ UNCHANGED stdout
    /\ UNCHANGED <<schedVars, playbackRate, args, disk, aisPackets, producer,
                   collab, written, prevRun, sinkVars>>

\* The program is run again in info mode on the same file, with another
\* value of the rate option.
Rerun ==
    /\ mainPc = "exited"
    /\ args.info
    /\ ~prevRun.ran
    /\ prevRun' = [ran |-> TRUE, rate |-> args.rate, stdout |-> stdout,
                   exitCode |-> exitCode]
    /\ \E r \in RateArgs \ {args.rate} : args' = [args EXCEPT !.rate = r]
    /\ mainPc' = "start"
    /\ exitCode' = 0 - 1
    /\ aisPackets' = <<>>
    /\ stdout' = <<>>
    /\ stderr' = <<>>
    /\ producer' = [state |-> "none", sent |-> <<>>]
    /\ playbackRate' = 0
    /\ UNCHANGED <<schedVars, disk, collab, written, sinkVars>>

MainNext ==
    \/ Startup \/ ReadFile \/ ShowInfo \/ StartProducer \/ InitResolved
    \/ Enter \/ Poll \/ Wake \/ Return \/ PlayPacketsSettled \/ Rerun

MainSpec == MainInit /\ [][MainNext]_vars

\* The format readers on their own: main is about to read a file.
ReaderInit ==
    /\ SchedulerIdle
    /\ ProcessStart
    /\ collab = [extract |-> <<>>, sendThrows |-> {}]
    /\ \/ \E f \in BinFiles(MaxFrames) :
             /\ disk = [readable |-> TRUE, content |-> f.content]
             /\ written = f.written
             /\ args = [help |-> FALSE, info |-> TRUE, broker |-> FALSE,
                        rate |-> <<"1">>, file |-> "bin"]
       \/ \E f \in Nm4Files(MaxLines) :
             /\ disk = [readable |-> TRUE, content |-> f.content]
             /\ written = f.written
             /\ args = [help |-> FALSE, info |-> TRUE, broker |-> FALSE,
                        rate |-> <<"1">>, file |-> "nm4"]

ReaderNext == Startup \/ ReadFile

ReaderSpec == ReaderInit /\ [][ReaderNext]_vars

(***************************************************************************)
(* The onSend that skips repeats, called as playPackets calls it           *)
(***************************************************************************)
MaxCallsMade == 4

\* the (packetTime, sentence) pairs of the calls; times in ms
CallPool ==
    { [packetTime |-> 1000000, sentence |-> SentenceA],
      [packetTime |-> 1000000, sentence |-> SentenceB],
      [packetTime |-> 1002500, sentence |-> SentenceA] }

\* main has reached line 316: the producer is connected and the CLEAR
\* message sent, no call of onSend made yet
FilterInit ==
    /\ SchedulerIdle
    /\ SinkIdle
    /\ args = [help |-> FALSE, info |-> FALSE, broker |-> TRUE, rate |-> <<"1">>,
               file |-> "bin"]
    /\ disk = [readable |-> TRUE, content |-> <<>>]
    /\ written = <<>>
    /\ mainPc = "playing"
    /\ exitCode = 0 - 1
    /\ aisPackets = <<>>
    /\ stdout = <<>>
    /\ stderr = <<>>
    /\ collab \in Collaborators
    /\ producer = SendMessage([state |-> "connected", sent |-> <<>>],
                              replaceDataWithControl(DEFAULT_TOPIC), <<"CLEAR">>).producer
    /\ prevRun = [ran |-> FALSE, rate |-> <<>>, stdout |-> <<>>, exitCode |-> 0 - 1]

\* one call onSend(packetTime, sentence) of the closure of lines 292-314
CallOnSend ==
    /\ mainPc = "playing"
    /\ Len(onSendCalls) < MaxCallsMade
    /\ \E c \in CallPool :
          LET oscall == [index      |-> Len(onSendCalls),
                         packetTime |-> c.packetTime,
                         sentence   |-> c.sentence,
                         simTime    |-> c.packetTime,
                         elapsedMs  |-> 0]
              r == OnSendSkippingRepeats(oscall,
                       [producer |-> producer, stdout |-> stdout, stderr |-> stderr],
                       lastPacketKey)
          IN  /\ onSendCalls' = Append(onSendCalls, oscall)
              /\ producer' = r.io.producer
              /\ stdout' = r.io.stdout
              /\ stderr' = r.io.stderr
              /\ lastPacketKey' = r.lastPacketKey
    /\ UNCHANGED <<packets, playbackRate, clockKind, clock, pc, startTime, endTime,
                   totalDuration, playbackStart, packetIndex, lastHeartbeatSimTime,
                   simulatedTime, heartbeats, logged, timeoutMs, suspended,
                   returnedAt, call, prevCalls, prevRate, args, disk, mainPc,
                   exitCode, aisPackets, collab, written, prevRun, stomp, net>>

FilterNext == CallOnSend

FilterSpec == FilterInit /\ [][FilterNext]_vars

(***************************************************************************)
(* MessageProducerSTOMP with its broker clients, its reconnect timer and   *)
(* the program that uses it                                                *)
(***************************************************************************)
\* the program is about to call producer.init() (line 603)
StompInit ==
    /\ SchedulerIdle
    /\ args = [help |-> FALSE, info |-> FALSE, broker |-> TRUE, rate |-> <<"1">>,
               file |-> "bin"]
    /\ disk = [readable |-> TRUE, content |-> <<>>]
    /\ written = <<>>
    /\ mainPc = "awaitInit"
    /\ exitCode = 0 - 1
    /\ aisPackets = <<>>
    /\ stdout = <<>>
    /\ stderr = <<>>
    /\ producer = [state |-> "none", sent |-> <<>>]
    /\ collab = [extract |-> <<>>, sendThrows |-> {}]
    /\ prevRun = [ran |-> FALSE, rate |-> <<>>, stdout |-> <<>>, exitCode |-> 0 - 1]
    /\ lastPacketKey = NoPacketKey
    /\ stomp = NewProducer
    /\ net = [NoNet EXCEPT !.caller = "start"]

stompFrame == <<packets, playbackRate, clockKind, clock, pc, startTime, endTime,
                totalDuration, playbackStart, packetIndex, lastHeartbeatSimTime,
                simulatedTime, onSendCalls, heartbeats, logged, timeoutMs,
                suspended, returnedAt, call, prevCalls, prevRate, args, disk,
                mainPc, exitCode, aisPackets, stdout, stderr, producer, collab,
                written, prevRun, lastPacketKey>>

\* main, line 603: producer.init() is called and awaited
CallerInit ==
    /\ net.caller = "start"
    /\ LET r == init(stomp, net)
       IN  /\ stomp' = r.stomp
           /\ net' = [r.net EXCEPT !.caller = "awaitInit"]
    /\ UNCHANGED stompFrame

\* The CONNECTED frame of a client arrives: _onConnect runs.  If it resolves
\* the promise main awaits, main goes on at once (before any other event)
\* with lines 604-605, the CLEAR message.
ClientConnected ==
    /\ \E c \in 1..Len(net.clients) :
          /\ net.clients[c] = "connecting"
          /\ LET r == onConnect(stomp, [net EXCEPT !.clients[c] = "connected"])
                 s == sendMessage(r.stomp, r.net,
                                  replaceDataWithControl(DEFAULT_TOPIC), <<"CLEAR">>)
             IN  IF net.caller = "awaitInit" /\ r.net.promises[1] = "resolved"
                 THEN /\ stomp' = s.stomp
                      /\ net' = [s.net EXCEPT !.caller = "playing"]
                 ELSE /\ stomp' = r.stomp
                      /\ net' = r.net
    /\ UNCHANGED stompFrame

\* An ERROR frame of a client arrives, its socket still open: _onError runs.
ClientErrorFrame ==
    /\ \E c \in 1..Len(net.clients) :
          /\ net.clients[c] \in {"connecting", "connected"}
          /\ LET r == onError(stomp, [net EXCEPT !.clients[c] = "errored"])
             IN  /\ stomp' = r.stomp
                 /\ net' = r.net
    /\ UNCHANGED stompFrame

\* The socket of a client is closed or fails: _onError runs.
ClientClosed ==
    /\ \E c \in 1..Len(net.clients) :
          /\ net.clients[c] \in {"connecting", "connected", "errored"}
          /\ LET r == onError(stomp, [net EXCEPT !.clients[c] = "closed"])
             IN  /\ stomp' = r.stomp
                 /\ net' = r.net
    /\ UNCHANGED stompFrame

\* The reconnect timer expires: its callback (lines 72-75) calls init().
TimerFires ==
    /\ Len(net.clients) < MaxClients
    /\ \E t \in 1..Len(net.timers) :
          /\ net.timers[t].status = "pending"
          /\ LET r == init(stomp, [net EXCEPT !.timers[t].status = "fired"])
             IN  /\ stomp' = r.stomp
                 /\ net' = r.net
    /\ UNCHANGED stompFrame

\* onSend calls producer.sendMessage during the replay (line 616).
CallSendMessage ==
    /\ net.caller = "playing"
    /\ net.sends < MaxSends
    /\ LET r == sendMessage(stomp, net, Append(DEFAULT_TOPIC, "111"), SentenceA)
       IN  /\ stomp' = r.stomp
           /\ net' = [r.net EXCEPT !.sends = @ + 1]
    /\ UNCHANGED stompFrame

\* The user of the producer calls disconnect().
CallDisconnect ==
    /\ net.caller # "start"
    /\ net.disconnects = 0
    /\ LET r == disconnect(stomp, net)
       IN  /\ stomp' = r.stomp
           /\ net' = [r.net EXCEPT !.disconnects = @ + 1]
    /\ UNCHANGED stompFrame

StompNext ==
    \/ CallerInit \/ ClientConnected \/ ClientErrorFrame \/ ClientClosed
    \/ TimerFires \/ CallSendMessage \/ CallDisconnect

StompSpec == StompInit /\ [][StompNext]_vars

(***************************************************************************)
(* Claims                                                                  *)
(***************************************************************************)

\* The payload, read as text and with surrounding white space removed,
\* begins with '!' (byte 33; white space is bytes 32, 9, 13, 10).
BeginsWithMarker(data) ==
    \E k \in 1..Len(data) :
        /\ data[k] = 33
        /\ \A j \in 1..(k - 1) : data[j] \in {32, 9, 13, 10}

CallsFor(i) == { k \in 1..Len(onSendCalls) : onSendCalls[k].index = i }

\* C1: when playPackets has returned, onSend has been called exactly once
\* for each packet whose trimmed payload begins with '!', with that packet's
\* instant, and never for any other packet; two identical consecutive
\* packets are both passed to onSend.
C1_OnSendOncePerMarkedPacket ==
    /\ \A k \in 1..Len(onSendCalls) :
          /\ onSendCalls[k].index \in 0..(Len(packets) - 1)
          /\ BeginsWithMarker(packets[onSendCalls[k].index + 1].data)
          /\ onSendCalls[k].packetTime = Instant(packets[onSendCalls[k].index + 1])
          /\ Cardinality(CallsFor(onSendCalls[k].index)) = 1
    /\ pc = "done" =>
          \A i \in 0..(Len(packets) - 1) :
              BeginsWithMarker(packets[i + 1].data) => CallsFor(i) # {}

C1_Witness ==
    /\ pc = "done"
    /\ Len(packets) = 3
    /\ packets[2] = packets[3]
    /\ packets[2].data = PayloadB
    /\ packets[1].data = PayloadX
    /\ Len(onSendCalls) = 2

\* C2: onSend is called in file order: the cursor never moves back during a
\* call of playPackets, and the packets' indices in the sequence of onSend
\* calls are strictly increasing, whatever their timestamps.
C2_FileOrder ==
    [][ /\ (pc # "done" => packetIndex' >= packetIndex)
        /\ \A k \in 1..Len(onSendCalls'), l \in 1..Len(onSendCalls') :
              k < l => onSendCalls'[k].index < onSendCalls'[l].index ]_vars

C2_Witness ==
    /\ pc = "done"
    /\ \E k \in 1..Len(onSendCalls), l \in 1..Len(onSendCalls) :
          /\ k < l
          /\ onSendCalls[k].packetTime > onSendCalls[l].packetTime

C4_RateInvariance ==
    (call = 2 /\ pc = "done") =>
        /\ Len(onSendCalls) = Len(prevCalls)
        /\ \A k \in 1..Len(prevCalls) :
              prevCalls[k] = <<onSendCalls[k].packetTime, onSendCalls[k].sentence>>

C4_Witness ==
    /\ call = 2
    /\ pc = "done"
    /\ prevRate = 1
    /\ playbackRate = 5000
    /\ Len(prevCalls) = 3
    /\ \E k \in 1..3 : onSendCalls[k].simTime - onSendCalls[k].packetTime > 1000

\* C5: the percent-complete values of the successive heartbeats of a run are
\* numbers in [0, 100] and never decrease.  Stated for the runs whose last
\* packet is later than the first (totalDuration > 0).
C5_PercentMonotoneBounded ==
    totalDuration > 0 =>
    \A k \in 1..Len(heartbeats) :
        /\ heartbeats[k].percentPlayed.kind = "number"
        /\ heartbeats[k].percentPlayed.tenths >= 0
        /\ heartbeats[k].percentPlayed.tenths <= 1000
        /\ \A l \in 1..Len(heartbeats) :
              k < l => heartbeats[k].percentPlayed.tenths
                          <= heartbeats[l].percentPlayed.tenths

\* all packets carry the first packet's timestamp (a single packet included)
AllShareFirstInstant ==
    /\ Len(packets) > 0
    /\ \A i \in 1..Len(packets) : Instant(packets[i]) = Instant(packets[1])

\* C6: when totalDuration is 0, every heartbeat of the run reports 100
\* percent, and the run delivers every eligible packet exactly once and
\* returns.
C6_ZeroDurationPercent ==
    AllShareFirstInstant =>
        /\ \A k \in 1..Len(heartbeats) :
              heartbeats[k].percentPlayed = [kind |-> "number", tenths |-> 1000]
        /\ pc = "done" =>
              \A i \in 0..(Len(packets) - 1) :
                  Cardinality(CallsFor(i)) =
                      IF BeginsWithMarker(packets[i + 1].data) THEN 1 ELSE 0

\* C7: a poll emits a heartbeat exactly when its simulated time is at least
\* 5 simulated seconds past lastHeartbeatSimTime, and then sets
\* lastHeartbeatSimTime to that simulated time; two consecutive heartbeats
\* are at least 5 simulated seconds apart.
C7_HeartbeatCadence ==
    [][ (pc = "loop" /\ pc' = "sleeping") =>
          LET sim == startTime + (clock - playbackStart) * playbackRate
          IN  /\ IF sim - lastHeartbeatSimTime >= 5000
                 THEN /\ Len(heartbeats') = Len(heartbeats) + 1
                      /\ heartbeats'[Len(heartbeats')].simTime = sim
                      /\ lastHeartbeatSimTime' = sim
                 ELSE /\ heartbeats' = heartbeats
                      /\ lastHeartbeatSimTime' = lastHeartbeatSimTime
              /\ \A k \in 1..(Len(heartbeats') - 1) :
                    heartbeats'[k + 1].simTime - heartbeats'[k].simTime >= 5000 ]_vars

\* two heartbeats exactly 5 simulated seconds apart, 2.5 s of wall clock
C7_Witness ==
    /\ Len(heartbeats) = 2
    /\ playbackRate = 2
    /\ heartbeats[2].simTime - heartbeats[1].simTime = 5000
    /\ clock - playbackStart = 5000

\* C8: for a non-empty packet sequence and a wall clock that keeps advancing,
\* playPackets eventually returns with the cursor at n, and every timer it
\* awaits is the fixed 50 ms tick.
C8_TerminatesWithFixedTick ==
    /\ (clockKind \in {"exact", "late"} /\ Len(packets) > 0 /\ pc # "done")
          ~> (pc = "done" /\ packetIndex = Len(packets))
    /\ [](pc = "sleeping" => timeoutMs = 50)

C8_Witness ==
    /\ pc = "done" /\ Len(packets) > 0 /\ packetIndex = Len(packets)
    /\ clockKind = "late" /\ suspended /\ returnedAt >= 10000

\* the instants of the sequence never decrease
NonDecreasingInstants ==
    \A i \in 1..(Len(packets) - 1) : Instant(packets[i]) <= Instant(packets[i + 1])

\* C9: with a clock that advances by exactly the time slept, a full run
\* lasts at least (endTime - startTime) / rate and at most one tick (50 ms)
\* more.  Stated for sequences in timestamp order, the scheduler's assumption.
C9_DurationWithinOneTick ==
    (pc = "done" /\ clockKind = "exact" /\ Len(packets) > 0 /\ NonDecreasingInstants) =>
        /\ (returnedAt - playbackStart) * playbackRate >= endTime - startTime
        /\ (returnedAt - playbackStart - 50) * playbackRate <= endTime - startTime

\* C10: for an empty packet sequence playPackets returns at once: no onSend
\* call, no heartbeat, no timer, no time spent.
C10_EmptyReturnsAtOnce ==
    Len(packets) = 0 =>
        /\ pc \in {"entry", "done"}
        /\ onSendCalls = <<>>
        /\ heartbeats = <<>>
        /\ timeoutMs = 0
        /\ ~suspended
        /\ clock = 0
        /\ pc = "done" => (returnedAt = 0 /\ logged = <<"No packets to play">>)

C10_Witness ==
    /\ Len(packets) = 0
    /\ pc = "done"
    /\ call = 2

\* C16: after the drain step of a poll, the cursor is at n or the packet at
\* the cursor is not yet due at that poll's simulated time; every packet the
\* poll passed was due, and no timer was awaited between them.
C16_DrainsAllDue ==
    [][ (pc = "loop" /\ pc' = "sleeping") =>
          LET sim == startTime + (clock - playbackStart) * playbackRate
          IN  /\ packetIndex' = Len(packets)
                    \/ Instant(packets[packetIndex' + 1]) > sim
              /\ \A i \in (packetIndex + 1)..packetIndex' : Instant(packets[i]) <= sim
              /\ clock' = clock ]_vars

\* one poll delivers two packets and leaves a third that is not due
C16_Witness ==
    /\ pc = "sleeping"
    /\ Len(packets) = 3
    /\ packetIndex = 2
    /\ Len(onSendCalls) = 2
    /\ onSendCalls[1].elapsedMs = onSendCalls[2].elapsedMs
    /\ Instant(packets[3]) > simulatedTime

\* C17: at every poll the elapsed real time is clamped to >= 0, so that the
\* simulated time is never below startTime, also when the wall clock reads
\* earlier than playbackStart.
C17_SimulatedTimeNotBeforeStart ==
    suspended => simulatedTime >= startTime

\* bytes of the frames of a packet sequence: 12 of header and the payload
RECURSIVE FrameBytes(_)
FrameBytes(pkts) ==
    IF pkts = <<>> THEN 0 ELSE 12 + Len(Head(pkts).data) + FrameBytes(Tail(pkts))

IncompleteWarned ==
    \E k \in 1..Len(stderr) : stderr[k].label = "Incomplete packet at end of file"

\* C11: parseBinFile yields exactly the complete frames of the buffer, in
\* frame order, each with its whole payload; it stops silently when fewer
\* than 12 bytes remain, and stops with a warning, yielding nothing more,
\* when the next header declares more payload than remains.
C11_BinFramesExactly ==
    (mainPc = "parsed" /\ args.file = "bin") =>
        LET rest == Len(disk.content) - FrameBytes(aisPackets)
        IN  /\ aisPackets = written
            /\ rest >= 0
            /\ \A k \in 1..Len(aisPackets) :
                  aisPackets[k].data =
                      SubSeq(disk.content,
                             FrameBytes(SubSeq(aisPackets, 1, k - 1)) + 13,
                             FrameBytes(SubSeq(aisPackets, 1, k)))
            /\ IncompleteWarned <=> rest >= 12
            /\ rest >= 12 =>
                  readUInt32LE(disk.content, FrameBytes(aisPackets) + 8) > rest - 12

\* two frames, then a header whose payload is cut
C11_Witness ==
    /\ mainPc = "parsed"
    /\ args.file = "bin"
    /\ Len(aisPackets) = 2
    /\ IncompleteWarned
    /\ Len(disk.content) - FrameBytes(aisPackets) = 14

\* C12: parseNm4File yields, in line order, one packet for each line that
\* starts with the sentinel, matches the pattern and whose trimmed body
\* starts with '!'; every packet has timestampUsec 0; the other lines yield
\* nothing and raise no error.
C12_Nm4RecordsExactly ==
    (mainPc \in {"parsed", "exited"} /\ args.file = "nm4") =>
        /\ mainPc = "parsed"
        /\ aisPackets = written
        /\ \A k \in 1..Len(aisPackets) :
              /\ aisPackets[k].timestampUsec = 0
              /\ BeginsWithMarker(aisPackets[k].data)
              /\ aisPackets[k].data[1] = 33
        /\ stderr = <<>>
        /\ exitCode = 0 - 1

\* a record with white space around its body, and a line whose body does
\* not start with '!'
C12_Witness ==
    /\ mainPc = "parsed"
    /\ args.file = "nm4"
    /\ Len(aisPackets) = 1
    /\ aisPackets[1] = [timestampSec |-> 1002, timestampUsec |-> 0, data |-> <<33, 66>>]
    /\ \E k \in 1..Len(disk.content) : disk.content[k] = "$"

\* the rate option is not a number, or is zero or negative
RateInvalid(rate) == ToNumber(rate).nan \/ ToNumber(rate).value <= 0

NothingPlayed ==
    /\ pc = "idle"
    /\ onSendCalls = <<>>
    /\ producer = [state |-> "none", sent |-> <<>>]

\* C13, as claimed: with an invalid rate the program ends at startup with a
\* non-zero status, nothing is played, the sink is never initialised and
\* onSend is never called.
C13_InvalidRateFatal ==
    RateInvalid(args.rate) =>
        /\ mainPc \in {"start", "exited"}
        /\ aisPackets = <<>>
        /\ NothingPlayed
        /\ mainPc = "exited" => exitCode = 1

\* C13, amended: as claimed, except that the status is 0 when help was asked
\* for (help is handled before the rate).
C13_InvalidRateFatalUnlessHelp ==
    RateInvalid(args.rate) =>
        /\ mainPc \in {"start", "exited"}
        /\ aisPackets = <<>>
        /\ NothingPlayed
        /\ mainPc = "exited" => exitCode = IF args.help THEN 0 ELSE 1

C13_Witness ==
    /\ mainPc = "exited"
    /\ exitCode = 1
    /\ ToNumber(args.rate).nan
    /\ args.broker
    /\ ~args.info
    /\ disk.readable
    /\ stderr = <<Line("Invalid playback rate", 0)>>

StatsPrinted ==
    \E k \in 1..Len(stdout) :
        stdout[k].label \in {"=== AIS File Statistics ===", "No packets found in the file."}

\* C14, as claimed: with a missing or unreadable file no statistics are
\* reported, the sink is never initialised, no message is sent, and the
\* process ends with a non-zero status.
C14_MissingFileFatal ==
    ~disk.readable =>
        /\ ~StatsPrinted
        /\ NothingPlayed
        /\ mainPc \notin {"parsed", "awaitInit", "playing"}
        /\ mainPc = "exited" => exitCode = 1

\* C14, amended: as claimed, except that the status is 0 when help was asked
\* for (help is printed before the file is looked at).
C14_MissingFileFatalUnlessHelp ==
    ~disk.readable =>
        /\ ~StatsPrinted
        /\ NothingPlayed
        /\ mainPc \notin {"parsed", "awaitInit", "playing"}
        /\ mainPc = "exited" => exitCode = IF args.help THEN 0 ELSE 1

\* the read itself fails: the options were accepted
C14_Witness ==
    /\ ~disk.readable
    /\ mainPc = "exited"
    /\ exitCode = 1
    /\ ~args.info
    /\ stderr = <<Line("Error:", 0)>>

\* the onSend call is one that main's callback delivers to the sink
Delivers(oscall) ==
    /\ Extract(oscall.sentence) \notin {"none", "throw"}
    /\ Extract(oscall.sentence) \notin collab.sendThrows

IsData(msg) == msg.message # <<"CLEAR">>

\* C15: a failure of the dispatch of one record (no identifier, the
\* extractor throws, the sink throws) stays with that record: nothing is
\* delivered for it, no exception reaches playPackets, every later eligible
\* packet is still passed to onSend, and the run completes.
C15_DispatchFailureIsLocal ==
    /\ pc # "rejected"
    /\ LET data == SelectSeq(producer.sent, IsData)
           good == { k \in 1..Len(onSendCalls) : Delivers(onSendCalls[k]) }
       IN  /\ Len(data) = Cardinality(good)
           /\ \A m \in 1..Len(data) :
                 \E k \in good :
                    /\ data[m].message = onSendCalls[k].sentence
                    /\ data[m].path = Append(DEFAULT_TOPIC, Extract(onSendCalls[k].sentence))
                    /\ Cardinality({ j \in good : j <= k }) = m
    /\ (mainPc \in {"playing", "exited"} /\ pc = "done") =>
          \A i \in 0..(Len(packets) - 1) :
              BeginsWithMarker(packets[i + 1].data) => CallsFor(i) # {}
    /\ (mainPc = "exited" /\ pc # "idle") => (pc = "done" /\ exitCode = 0)

\* the extractor throws for the first record, the second one is delivered
C15_Witness ==
    /\ mainPc = "exited"
    /\ exitCode = 0
    /\ Len(onSendCalls) = 2
    /\ Extract(onSendCalls[1].sentence) = "throw"
    /\ Extract(onSendCalls[2].sentence) = "222"
    /\ collab.sendThrows = {}
    /\ Len(SelectSeq(producer.sent, IsData)) = 1

\* C18: in info mode the sink is never created or initialised, no message is
\* sent and playPackets is never entered; once the statistics are printed
\* the process has ended, with status 0.
C18_InfoModeIsTerminal ==
    args.info =>
        /\ NothingPlayed
        /\ mainPc \notin {"awaitInit", "playing"}
        /\ StatsPrinted => (mainPc = "exited" /\ exitCode = 0)

C18_Witness ==
    /\ args.info
    /\ mainPc = "exited"
    /\ exitCode = 0
    /\ Len(stdout) = 10
    /\ args.broker

\* C19, as claimed: two info-mode runs on the same file that differ only in
\* the rate option, valid or not, print the same and end with the same
\* status.
C19_InfoIgnoresRate ==
    (prevRun.ran /\ mainPc = "exited") =>
        /\ stdout = prevRun.stdout
        /\ exitCode = prevRun.exitCode

\* C19, amended: as claimed for two rates that are both valid or both
\* invalid (an invalid rate ends the run before the file is read, unless
\* help was asked for).
C19_InfoIgnoresValidRate ==
    (prevRun.ran /\ mainPc = "exited"
        /\ RateInvalid(prevRun.rate) = RateInvalid(args.rate)) =>
        /\ stdout = prevRun.stdout
        /\ exitCode = prevRun.exitCode

C19_Witness ==
    /\ prevRun.ran
    /\ mainPc = "exited"
    /\ prevRun.rate = <<"1">>
    /\ args.rate = <<"2">>
    /\ ~args.help
    /\ Len(stdout) = 10
    /\ stdout[8].value > 0

\* the sentences of the parsed packets that start with '!'
MarkedSentences ==
    { Sentence(aisPackets[i]) :
        i \in { j \in 1..Len(aisPackets) : BeginsWithMarker(aisPackets[j].data) } }

\* C20: for an empty sequence printFileStats prints that there are no
\* packets and no time-based field; for a non-empty one it counts the
\* distinct identifiers the extractor returns for the payloads that begin
\* with '!', and a payload without identifier is skipped without failure.
C20_StatsContract ==
    (args.info /\ ~args.help /\ ~RateInvalid(args.rate) /\ disk.readable
        /\ mainPc = "exited"
        /\ \A t \in MarkedSentences : Extract(t) # "throw") =>
        /\ exitCode = 0
        /\ stderr = <<>> \/ (Len(stderr) = 1 /\ IncompleteWarned)
        /\ IF aisPackets = <<>>
           THEN stdout = <<Line("No packets found in the file.", 0)>>
           ELSE /\ Len(stdout) = 10
                /\ stdout[4] = Line("Number of packets", Len(aisPackets))
                /\ stdout[5] = Line("Unique MMSIs (vessels)",
                                    Cardinality({ Extract(t) : t \in MarkedSentences } \ {"none"}))

\* three packets, one not starting with '!', one without identifier
C20_Witness ==
    /\ args.info
    /\ mainPc = "exited"
    /\ exitCode = 0
    /\ Len(aisPackets) = 3
    /\ Extract(SentenceA) = "111"
    /\ Extract(SentenceB) = "none"
    /\ Len(stdout) = 10
    /\ stdout[5].value = 1

\* an empty file in info mode
C20_WitnessEmpty ==
    /\ args.info
    /\ mainPc = "exited"
    /\ exitCode = 0
    /\ disk.readable
    /\ aisPackets = <<>>
    /\ stdout = <<Line("No packets found in the file.", 0)>>

\* the pair (instant, payload) of an onSend call
PairOf(oscall) == <<oscall.packetTime, oscall.sentence>>

\* the data messages the sink is due for the first k calls when only a call
\* whose pair is that of the call just before it is skipped
RECURSIVE DueDeliveries(_, _)
DueDeliveries(calls, k) ==
    IF k = 0 THEN <<>>
    ELSE IF (k = 1 \/ PairOf(calls[k]) # PairOf(calls[k - 1])) /\ Delivers(calls[k])
         THEN Append(DueDeliveries(calls, k - 1),
                     [path    |-> Append(DEFAULT_TOPIC, Extract(calls[k].sentence)),
                      message |-> calls[k].sentence])
         ELSE DueDeliveries(calls, k - 1)

\* C21: with the onSend that skips repeats, a call whose (instant, payload)
\* pair is that of the onSend call just before it delivers nothing; every
\* other call, the first occurrence of a pair and a pair that comes back
\* after a different one alike, is delivered as without the filter.
C21_SkipsOnlyBackToBackRepeats ==
    mainPc = "playing" /\ pc = "idle" =>
        SelectSeq(producer.sent, IsData) = DueDeliveries(onSendCalls, Len(onSendCalls))

\* a pair, its repeat, the same payload at another instant, the first pair
\* again: three deliveries
C21_Witness ==
    /\ mainPc = "playing"
    /\ pc = "idle"
    /\ Len(onSendCalls) = 4
    /\ PairOf(onSendCalls[1]) = <<1000000, SentenceA>>
    /\ PairOf(onSendCalls[2]) = <<1000000, SentenceA>>
    /\ PairOf(onSendCalls[3]) = <<1002500, SentenceA>>
    /\ PairOf(onSendCalls[4]) = <<1000000, SentenceA>>
    /\ Extract(SentenceA) = "111"
    /\ Len(SelectSeq(producer.sent, IsData)) = 3

\* C22: sendMessage called while the sink is not connected (connected false
\* or stompClient null) sends nothing, does not throw and leaves the fields
\* of the sink as they are; the caller goes on.
C22_SendWhileNotConnected ==
    [][ (net'.sends = net.sends + 1 /\ (~stomp.connected \/ stomp.stompClient = 0)) =>
            /\ net'.wire = net.wire
            /\ net'.lastSend = "dropped"
            /\ stomp' = stomp
            /\ net'.caller = "playing" ]_vars

\* a message dropped after a connection error
C22_Witness ==
    /\ net.sends >= 1
    /\ net.lastSend = "dropped"
    /\ ~stomp.connected
    /\ net.disconnects = 0
    /\ \E c \in 1..Len(net.clients) : net.clients[c] = "closed"
    /\ Len(net.wire) = 1

\* a message dropped after disconnect()
C22_WitnessDisconnected ==
    /\ net.sends >= 1
    /\ net.lastSend = "dropped"
    /\ net.disconnects = 1
    /\ net.clients = <<"closed">>
    /\ net.timers = <<>>

ClearMessage ==
    [path |-> <<"producers", "ais", "control">>, message |-> <<"CLEAR">>]

\* C23: in a playback run the CLEAR control message is sent exactly once,
\* when init() has completed and before any AIS sentence; no data message
\* precedes it.
C23_ClearOnceBeforeData ==
    /\ producer.sent # <<>> =>
          /\ producer.sent[1] = ClearMessage
          /\ \A k \in 2..Len(producer.sent) : IsData(producer.sent[k])
          /\ producer.state = "connected"
    /\ (mainPc \in {"playing", "exited"} /\ pc # "idle") => producer.sent # <<>>
    /\ onSendCalls # <<>> => producer.sent # <<>>

\* a finished run: CLEAR, then a sentence
C23_Witness ==
    /\ mainPc = "exited"
    /\ exitCode = 0
    /\ Len(producer.sent) >= 2
    /\ producer.sent[1] = ClearMessage
    /\ producer.sent[2].message = SentenceA

\* C24: once a connection attempt has succeeded, the first one or a later
\* automatic one, the promise of the original init() call is resolved and
\* its caller has gone on.
C24_OriginalInitResolves ==
    stomp.connected =>
        /\ net.promises[1] = "resolved"
        /\ net.caller = "playing"

\* C25: connected implies that stompClient is not null.
C25_ConnectedHasClient ==
    stomp.connected => stomp.stompClient # 0

PendingTimers == { t \in 1..Len(net.timers) : net.timers[t].status = "pending" }

FiredTimers == { t \in 1..Len(net.timers) : net.timers[t].status = "fired" }

\* C26: at most one reconnect timer is pending, the one _onError set last,
\* due 10 s after it was set; init() has been started once by the program
\* and once per timer expiry.
C26_OneReconnectTimer ==
    /\ Cardinality(PendingTimers) <= 1
    /\ PendingTimers \subseteq {stomp.reconnectTimeout}
    /\ \A t \in 1..Len(net.timers) : net.timers[t].delay = 10000
    /\ net.caller # "start" => Len(net.clients) = 1 + Cardinality(FiredTimers)
    /\ Len(net.promises) = Len(net.clients)

\* a second error while the timer of the first is pending
C26_Witness ==
    /\ Len(net.timers) = 2
    /\ net.timers[1].status = "cleared"
    /\ net.timers[2].status = "pending"
    /\ Len(net.clients) = 1

====
